---- MODULE Spec2Model ----
(***************************************************************************)
(* State-machine model of the qdu_qcodes_drivers instrument drivers:       *)
(*   - Stahl HV324 channel voltage (set / get / ramp),                     *)
(*   - NF LI5660 filter slope,                                             *)
(*   - Anritsu MS2830 sweep parameters,                                    *)
(*   - BlueFors log-sampled temperatures and pressures,                    *)
(*   - HV324 / AFG31000 construction, channel names and channel objects,   *)
(*     and the HV324 identity parser,                                      *)
(*   - decoding of replies (float, val_mapping, comma-separated fields)    *)
(*     and the HV324 voltage code, for gets and sets of one parameter.     *)
(*                                                                         *)
(* The drivers are built on the qcodes Parameter: a call parameter(v)      *)
(* validates v, computes the ramp values from parameter.step, and for      *)
(* each value validates it, calls the driver's set function and updates    *)
(* the cache; any exception propagates to the caller.                      *)
(*                                                                         *)
(* Voltages are integers on a 1 V grid.  qcodes' permissive_range takes    *)
(* ceil((stop - start)/step - 1e-10) steps; on a grid whose spacing is     *)
(* more than 1e-10 step the tolerance never changes the count, so the      *)
(* count is the exact ceiling here.                                        *)
(***************************************************************************)
EXTENDS Integers, Sequences, FiniteSets, TLC

VARIABLES
    \* ---- Stahl HV324 channel ----
    vstep,      \* voltage.step: None or a positive number
    vdelay,     \* voltage.inter_delay: a number >= 0
    vcache,     \* voltage cache: None or the last value got / set
    pc,         \* per caller: position in the running call
    frame,      \* per caller: arguments and locals of the running call
    sent,       \* per caller: voltages passed to _set_voltage in this call
    io,         \* per caller: transport exchanges started in this call
    pre,        \* per caller: step / delay / cache at the call's entry
    \* ---- NF LI5660 slope ----
    slope,      \* slope cache: None or the last value set
    li_io,      \* commands written by the last slope set
    li_out,     \* outcome of the last slope set
    li_pre,     \* slope cache at the last slope set's entry
    li_arg,     \* the value the last slope set was called with
    \* ---- Anritsu MS2830 ----
    ms_dev,     \* the device's start and stop frequency and point count
    ms_cache,   \* caches of the start and stop parameters
    ms_call,    \* the last call: parameter, value, commands sent, outcome
    \* ---- BlueFors ----
    bf_today,   \* the current date
    bf_files,   \* the log files, by date and file name
    bf_focus,   \* the log file the logging process is seen writing
    bf_call,    \* the last get: function, channel, file condition, result
    \* ---- HV324 / AFG31000 construction ----
    hv_input,   \* what the device's IDN reply is built from
    hv_pc,      \* position in HV324.__init__
    hv_info,    \* instrument_info: the parsed identity, once parsed
    hv_wire,    \* commands sent so far
    hv_children,\* names of the submodules attached so far, in order
    hv_names,   \* the ch_names argument
    afg_idn,    \* the model the AFG reports in its IDN
    afg_pc,     \* position in AFG31000.__init__
    afg_children, \* channels created and attached so far
    xch,        \* the last channel object constructed by the user
    \* ---- one parameter's gets and sets ----
    cd_param,   \* the parameter
    cd_range,   \* the parent HV324's voltage_range
    cd_cache,   \* the parameter's cached value
    cd_dev,     \* the text last written to the device for the parameter
    cd_call     \* the last call: arguments, reply, outcome, value

stahlVars == <<vstep, vdelay, vcache, pc, frame, sent, io, pre>>
liVars == <<slope, li_io, li_out, li_pre, li_arg>>
msVars == <<ms_dev, ms_cache, ms_call>>
bfVars == <<bf_today, bf_files, bf_focus, bf_call>>
ctorVars == <<hv_input, hv_pc, hv_info, hv_wire, hv_children, hv_names,
              afg_idn, afg_pc, afg_children, xch>>
codecVars == <<cd_param, cd_range, cd_cache, cd_dev, cd_call>>

\* ------------------------------------------------------------------------
\* Optional values (Python None)
\* ------------------------------------------------------------------------
None == [set |-> FALSE, v |-> 0]
Some(x) == [set |-> TRUE, v |-> x]

\* ------------------------------------------------------------------------
\* Program constants and model bounds
\* ------------------------------------------------------------------------
\* Numbers(min_value=-10.00, max_value=10.00)
VMin == -10
VMax == 10

\* largest ramp step / standing step drawn as an input
MaxStep == 3
\* largest inter-step delay drawn as an input
MaxDelay == 1
\* how far outside the validator range targets and device voltages are drawn
Margin == 2

Callers == {"a"}
\* the threads of control that hold the channel object: the caller above
\* and a second thread that calls only where access is not serialized
Threads == Callers \cup {"b"}
\* targets and steps drawn for ramps that overlap: one inner point, the two
\* largest steps, no delay and the largest delay
OverlapTargets == {4}
OverlapSteps == {MaxStep - 1, MaxStep}
OverlapDelays == {0, MaxDelay}
\* the voltage the device reports to a ramp that finds the cache empty
OverlapVoltages == {-1}

\* voltages a V query may report
Voltages == (VMin - Margin)..(VMax + Margin)
\* targets drawn for ramp(): both ends of the range, outside it on both
\* sides, and two inner points at distances no drawn step divides evenly
TargetArgs == {VMin - Margin, VMin, -3, 4, VMax, VMax + Margin}
StepArgs == (-1)..MaxStep
\* delays are stored and restored, never computed with: a negative one, none
\* and the largest
DelayArgs == {-1, 0, MaxDelay}

\* (variant: the validator checks the upper limit only)
ValidVoltageUpperOnly(v) == v <= VMax

\* vals=Numbers(min_value=-10.00, max_value=10.00)
ValidVoltage(v) == VMin <= v /\ v <= VMax

\* ------------------------------------------------------------------------
\* qcodes Parameter.step / inter_delay setters and ramp values
\* ------------------------------------------------------------------------
\* step setter: None is stored; 0 is stored as None; a negative step raises
StepSetterRaises(s) == s.set /\ s.v < 0
StepSetterValue(s) == IF s.set /\ s.v > 0 THEN s ELSE None

\* inter_delay setter: a negative delay raises
DelaySetterRaises(d) == d < 0

\* ceil(d / s) for d >= 0, s > 0
CeilDiv(d, s) == (d + s - 1) \div s

Abs(x) == IF x < 0 THEN -x ELSE x

\* (variant: whole steps only, the last one not clipped to the target)
RampValuesUnclipped(start, value, step) ==
    LET signed == IF value > start THEN step ELSE -step
        count == CeilDiv(Abs(value - start), step)
    IN  IF count = 0 THEN <<value>>
        ELSE [i \in 1..count |-> start + i * signed]

\* permissive_range(start, stop, step)[1:] + [stop]
RampValues(start, value, step) ==
    LET signed == IF value > start THEN step ELSE -step
        count == CeilDiv(Abs(value - start), step)
    IN  [i \in 1..(count - 1) |-> start + i * signed] \o <<value>>

\* get_ramp_values(value, step=self.step)
GetRampValues(start, value, step) ==
    IF ~step.set THEN <<value>> ELSE RampValues(start, value, step.v)

\* ------------------------------------------------------------------------
\* Stahl HV324 channel: calls in progress
\* ------------------------------------------------------------------------
NoFrame ==
    [op |-> "none", target |-> 0, step |-> 0, delay |-> 0,
     saved_step |-> None, saved_inter_delay |-> 0, steps |-> <<>>,
     installed |-> FALSE, start |-> None, warned |-> FALSE,
     fault |-> "none"]

NoPre == [step |-> None, delay |-> 0, cache |-> None, overlap |-> FALSE]

Resting(c) == pc[c] = "idle"

Exited(c) == pc[c] \in {"returned", "raised"}

\* thread o is inside a call of the channel
MidCall(o) == ~Resting(o) /\ ~Exited(o)

\* the call of c begins while another thread is inside a call
Overlaps(c) == \E o \in Threads \ {c} : MidCall(o)

\* replies to the CH command: the ACK character, any other text, or no
\* reply before the timeout (ask_raw raises)
Replies == {"ack", "other", "timeout"}

\* an exception leaves the call at once: ramp has no try / finally
Raise(c) == pc' = [pc EXCEPT ![c] = "raised"]

\* what every call records at its entry
Enter(c) ==
    /\ sent' = [sent EXCEPT ![c] = <<>>]
    /\ io' = [io EXCEPT ![c] = 0]
    /\ pre' = [pre EXCEPT ![c] = [step |-> vstep, delay |-> vdelay, cache |-> vcache,
                                  overlap |-> Overlaps(c)]]

\* ramp() is called; line 78: saved_step = self.voltage.step
RampSave(c, ramp_to, step, delay) ==
    /\ Resting(c)
    /\ pc' = [pc EXCEPT ![c] = "ramp_79"]
    /\ frame' = [frame EXCEPT ![c] =
                   [NoFrame EXCEPT !.op = "ramp", !.target = ramp_to,
                                   !.step = step, !.delay = delay,
                                   !.saved_step = vstep]]
    /\ Enter(c)
    /\ UNCHANGED <<vstep, vdelay, vcache>>

\* line 79: saved_inter_delay = self.voltage.inter_delay
RampSaveDelay(c) ==
    /\ pc[c] = "ramp_79"
    /\ pc' = [pc EXCEPT ![c] = "ramp_81"]
    /\ frame' = [frame EXCEPT ![c].saved_inter_delay = vdelay]
    /\ UNCHANGED <<vstep, vdelay, vcache, sent, io, pre>>

\* line 81: self.voltage.step = step
RampInstallStep(c) ==
    /\ pc[c] = "ramp_81"
    /\ IF StepSetterRaises(Some(frame[c].step))
       THEN /\ Raise(c)
            /\ UNCHANGED <<vstep, frame>>
       ELSE /\ vstep' = StepSetterValue(Some(frame[c].step))
            /\ frame' = [frame EXCEPT ![c].installed = TRUE]
            /\ pc' = [pc EXCEPT ![c] = "ramp_82"]
    /\ UNCHANGED <<vdelay, vcache, sent, io, pre>>

\* line 82: self.voltage.inter_delay = delay
RampInstallDelay(c) ==
    /\ pc[c] = "ramp_82"
    /\ IF DelaySetterRaises(frame[c].delay)
       THEN /\ Raise(c)
            /\ UNCHANGED vdelay
       ELSE /\ vdelay' = frame[c].delay
            /\ pc' = [pc EXCEPT ![c] = "ramp_84"]
    /\ UNCHANGED <<vstep, vcache, frame, sent, io, pre>>

\* line 84: self.ask("... DIS Lnn name ramp ..."), which raises when the
\* exchange fails
RampAnnounce(c) ==
    /\ pc[c] = "ramp_84"
    /\ io' = [io EXCEPT ![c] = @ + 1]
    /\ \E failed \in BOOLEAN :
         IF failed
         THEN /\ Raise(c)
              /\ frame' = [frame EXCEPT ![c].fault = "dis_ramp"]
         ELSE /\ pc' = [pc EXCEPT ![c] = "set_validate"]
              /\ UNCHANGED frame
    /\ UNCHANGED <<vstep, vdelay, vcache, sent, pre>>

\* voltage(v) called directly
VoltageSet(c, v) ==
    /\ Resting(c)
    /\ pc' = [pc EXCEPT ![c] = "set_validate"]
    /\ frame' = [frame EXCEPT ![c] = [NoFrame EXCEPT !.op = "set", !.target = v]]
    /\ Enter(c)
    /\ UNCHANGED <<vstep, vdelay, vcache>>

\* the set wrapper's start: validate(value), then get_ramp_values, which
\* reads the cache and, when the cache is empty, gets the voltage from the
\* device (lines 62-64), whatever the device reports
WalkBegin(c) ==
    /\ pc[c] = "set_validate"
    /\ IF ~ValidVoltage(frame[c].target)
       THEN /\ Raise(c)
            /\ UNCHANGED <<vcache, frame, io>>
       ELSE IF vstep.set /\ ~vcache.set
       THEN /\ io' = [io EXCEPT ![c] = @ + 1]
            /\ \E failed \in BOOLEAN :
                 IF failed
                 THEN /\ Raise(c)
                      /\ UNCHANGED <<vcache, frame>>
                 ELSE \E got \in Voltages :
                        /\ vcache' = Some(got)
                        /\ frame' = [frame EXCEPT
                                       ![c].start = Some(got),
                                       ![c].steps =
                                         GetRampValues(got, frame[c].target, vstep)]
                        /\ pc' = [pc EXCEPT ![c] = "set_walk"]
       ELSE /\ frame' = [frame EXCEPT
                           ![c].start = vcache,
                           ![c].steps =
                             GetRampValues(vcache.v, frame[c].target, vstep)]
            /\ pc' = [pc EXCEPT ![c] = "set_walk"]
            /\ UNCHANGED <<vcache, io>>
    /\ UNCHANGED <<vstep, vdelay, sent, pre>>

\* line 70: ask_raw raises when no reply comes before the timeout
ReplyRaises(reply) == reply = "timeout"

\* line 71: response != self.acknowledge_reply
ReplyWarns(reply) == reply # "ack"

\* lines 68-72 under the set wrapper's loop: validate the value, send it
\* (a reply other than the ACK only logs a warning), update the cache
WalkStep(c) ==
    /\ pc[c] = "set_walk"
    /\ frame[c].steps # <<>>
    /\ LET v == Head(frame[c].steps) IN
       IF ~ValidVoltage(v)
       THEN /\ Raise(c)
            /\ UNCHANGED <<vcache, frame, sent, io>>
       ELSE /\ sent' = [sent EXCEPT ![c] = Append(@, v)]
            /\ io' = [io EXCEPT ![c] = @ + 1]
            /\ \E reply \in Replies :
                 IF ReplyRaises(reply)
                 THEN /\ Raise(c)
                      /\ frame' = [frame EXCEPT ![c].fault = "ch_timeout"]
                      /\ UNCHANGED vcache
                 ELSE /\ vcache' = Some(v)
                      /\ frame' = [frame EXCEPT
                                     ![c].steps = Tail(@),
                                     ![c].warned = @ \/ ReplyWarns(reply)]
                      /\ UNCHANGED pc
    /\ UNCHANGED <<vstep, vdelay, pre>>

\* the set wrapper returns: to the caller, or to line 88 of ramp
WalkEnd(c) ==
    /\ pc[c] = "set_walk"
    /\ frame[c].steps = <<>>
    /\ pc' = [pc EXCEPT ![c] = IF frame[c].op = "ramp" THEN "ramp_88" ELSE "returned"]
    /\ UNCHANGED <<vstep, vdelay, vcache, frame, sent, io, pre>>

\* line 88: self.ask("... DIS Lnn name set ...")
RampAnnounceSet(c) ==
    /\ pc[c] = "ramp_88"
    /\ io' = [io EXCEPT ![c] = @ + 1]
    /\ \E failed \in BOOLEAN :
         IF failed
         THEN /\ Raise(c)
              /\ frame' = [frame EXCEPT ![c].fault = "dis_set"]
         ELSE /\ pc' = [pc EXCEPT ![c] = "ramp_90"]
              /\ UNCHANGED frame
    /\ UNCHANGED <<vstep, vdelay, vcache, sent, pre>>

\* (variant: line 90 missing, the step is left as installed)
RampRestoreStepSkipped(c) ==
    /\ pc[c] = "ramp_90"
    /\ pc' = [pc EXCEPT ![c] = "ramp_91"]
    /\ UNCHANGED <<vstep, vdelay, vcache, frame, sent, io, pre>>

\* line 90: self.voltage.step = saved_step
RampRestoreStep(c) ==
    /\ pc[c] = "ramp_90"
    /\ vstep' = StepSetterValue(frame[c].saved_step)
    /\ pc' = [pc EXCEPT ![c] = "ramp_91"]
    /\ UNCHANGED <<vdelay, vcache, frame, sent, io, pre>>

\* (variant: line 91 missing, only the step is restored)
RampRestoreStepOnly(c) ==
    /\ pc[c] = "ramp_91"
    /\ pc' = [pc EXCEPT ![c] = "returned"]
    /\ UNCHANGED <<vstep, vdelay, vcache, frame, sent, io, pre>>

\* line 91: self.voltage.inter_delay = saved_inter_delay, and return
RampRestoreDelay(c) ==
    /\ pc[c] = "ramp_91"
    /\ vdelay' = frame[c].saved_inter_delay
    /\ pc' = [pc EXCEPT ![c] = "returned"]
    /\ UNCHANGED <<vstep, vcache, frame, sent, io, pre>>

\* voltage() called directly: lines 62-64
VoltageGet(c) ==
    /\ Resting(c)
    /\ frame' = [frame EXCEPT ![c] = [NoFrame EXCEPT !.op = "get"]]
    /\ sent' = [sent EXCEPT ![c] = <<>>]
    /\ io' = [io EXCEPT ![c] = 1]
    /\ pre' = [pre EXCEPT ![c] = [step |-> vstep, delay |-> vdelay, cache |-> vcache,
                                  overlap |-> Overlaps(c)]]
    /\ \E failed \in BOOLEAN :
         IF failed
         THEN /\ Raise(c)
              /\ UNCHANGED vcache
         ELSE \E got \in Voltages :
                /\ vcache' = Some(got)
                /\ pc' = [pc EXCEPT ![c] = "returned"]
    /\ UNCHANGED <<vstep, vdelay>>

\* the call is over: its frame is gone and the caller may call again
Return(c) ==
    /\ Exited(c)
    /\ pc' = [pc EXCEPT ![c] = "idle"]
    /\ frame' = [frame EXCEPT ![c] = NoFrame]
    /\ sent' = [sent EXCEPT ![c] = <<>>]
    /\ io' = [io EXCEPT ![c] = 0]
    /\ pre' = [pre EXCEPT ![c] = NoPre]
    /\ UNCHANGED <<vstep, vdelay, vcache>>

\* voltage.step / voltage.inter_delay configured by the user between calls
Configure(c, s, d) ==
    /\ Resting(c)
    /\ ~StepSetterRaises(s)
    /\ ~DelaySetterRaises(d)
    /\ vstep' = StepSetterValue(s)
    /\ vdelay' = d
    /\ UNCHANGED <<vcache, pc, frame, sent, io, pre>>

\* ------------------------------------------------------------------------
\* NF LI5660 filter slope
\* ------------------------------------------------------------------------
\* vals=Enum(6, 12, 18, 24, 30)
SlopeEnum == {6, 12, 18, 24, 30}
ValidSlope(v) == v \in SlopeEnum

\* values drawn for slope(v): the enum, its neighbours and multiples of 6
\* beyond it
SlopeArgs == {0, 5, 6, 7, 12, 18, 24, 30, 31, 36}

\* slope(v): validate, write ':FILT:SLOP v', update the cache
SlopeSet(v) ==
    /\ li_out = "none"
    /\ li_pre' = slope
    /\ li_arg' = v
    /\ IF ~ValidSlope(v)
       THEN /\ li_out' = "raised"
            /\ li_io' = 0
            /\ UNCHANGED slope
       ELSE /\ li_io' = 1
            /\ \E written \in BOOLEAN :
                 IF written
                 THEN /\ slope' = Some(v)
                      /\ li_out' = "returned"
                 ELSE /\ li_out' = "raised"
                      /\ UNCHANGED slope

\* the call is over and the caller may call again
SlopeReturn ==
    /\ li_out # "none"
    /\ li_out' = "none"
    /\ li_io' = 0
    /\ li_pre' = None
    /\ li_arg' = 0
    /\ UNCHANGED slope

\* ------------------------------------------------------------------------
\* Anritsu MS2830 sweep parameters
\* ------------------------------------------------------------------------
\* A frequency is g * 10^9 + h Hz, with 0 <= h < 10^9, kept as the pair
\* (g, h): 26.5e9 does not fit a 32-bit integer.
Giga == 1000000000

Hz(g, h) == [g |-> g, h |-> h]

\* f + n Hz for -Giga < n < Giga
FPlus(f, n) ==
    IF f.h + n >= Giga THEN Hz(f.g + 1, f.h + n - Giga)
    ELSE IF f.h + n < 0 THEN Hz(f.g - 1, f.h + n + Giga)
    ELSE Hz(f.g, f.h + n)

FLt(a, b) == a.g < b.g \/ (a.g = b.g /\ a.h < b.h)
FLe(a, b) == a = b \/ FLt(a, b)

\* self._min_freq = 9e3
MinFreqHz == 9000
\* self._max_freq = 26.5e9
MaxFreqGHz == 26
MaxFreqRestHz == 500000000

MinFreq == Hz(0, MinFreqHz)
MaxFreq == Hz(MaxFreqGHz, MaxFreqRestHz)

\* a - b for a >= b
FMinus(a, b) ==
    IF a.h >= b.h THEN Hz(a.g - b.g, a.h - b.h)
    ELSE Hz(a.g - b.g - 1, a.h + Giga - b.h)

\* vals=Numbers(self._min_freq, self._max_freq - 10)
ValidStart(v) == FLe(MinFreq, v) /\ FLe(v, FPlus(MaxFreq, -10))
\* (variant: only the upper limit of the stop validator)
ValidStopUpperOnly(v) == FLe(v, MaxFreq)

\* vals=Numbers(self._min_freq + 10, self._max_freq)
ValidStop(v) == FLe(FPlus(MinFreq, 10), v) /\ FLe(v, MaxFreq)
\* vals=Numbers(self._min_freq + 5, self._max_freq - 5)
ValidCenter(v) == FLe(FPlus(MinFreq, 5), v) /\ FLe(v, FPlus(MaxFreq, -5))
\* vals=Numbers(10, self._max_freq - self._min_freq)
ValidSpan(v) == FLe(Hz(0, 10), v) /\ FLe(v, FMinus(MaxFreq, MinFreq))
\* vals=Ints(1, 20001)
MinPoints == 1
MaxPoints == 20001
ValidNpts(n) == MinPoints <= n /\ n <= MaxPoints

\* number of whole-GHz frequencies drawn inside the band
MidFreqs == 2

\* frequencies drawn as arguments and held by the device: the limits, the
\* validators' margins around them, one step outside, and inner points
FreqArgs ==
    {FPlus(MinFreq, -1), MinFreq, FPlus(MinFreq, 10),
     FPlus(MaxFreq, -10), MaxFreq, FPlus(MaxFreq, 1)}
    \cup {Hz(k, 0) : k \in 1..MidFreqs}
DevFreqs == {f \in FreqArgs : FLe(MinFreq, f) /\ FLe(f, MaxFreq)}
SpanArgs == {Hz(0, 9), Hz(0, 10), Hz(1, 0), FMinus(MaxFreq, MinFreq),
             FPlus(FMinus(MaxFreq, MinFreq), 1)}
NptsArgs == {MinPoints - 1, MinPoints, MaxPoints, MaxPoints + 1}

Cmd(name, val) == [cmd |-> name, val |-> val]
NoVal == Hz(0, 0)

\* an empty frequency cache
FNone == [set |-> FALSE, v |-> NoVal]

NoCall == [op |-> "none", arg |-> NoVal, wire |-> <<>>, out |-> "none",
           warned |-> FALSE, pre |-> [start |-> FNone, stop |-> FNone]]

MSEnter(op, v) ==
    [NoCall EXCEPT !.op = op, !.arg = v,
                   !.pre = [start |-> ms_cache.start, stop |-> ms_cache.stop]]

MSIdle == ms_call.op = "none"

\* (variant: `val > stop`, a start equal to the stop is let through)
StartRejectedStrict(val, stop) == FLt(stop, val)

\* line 217: val >= stop
StartRejected(val, stop) == FLe(stop, val)

\* line 235: val <= start
StopRejected(val, start) == FLe(val, start)

\* (variant: `val - start >= 1`, without the absolute value)
DriftedOneSided(val, start) == FLt(start, val)

\* line 227: abs(val - start) >= 1
Drifted(val, start) == val # start

\* what the device sets its start frequency to on a STARt write: the value
\* written, or, the device being the authority, the value it already had
StartApplied(v) == {v, ms_dev.start}

\* start(v): the set wrapper validates, then _set_start (lines 212-228)
\* reads stop, compares, writes, reads start back; the wrapper caches v
MSSetStart(v) ==
    /\ MSIdle
    /\ IF ~ValidStart(v)
       THEN /\ ms_call' = [MSEnter("start", v) EXCEPT !.out = "raised"]
            /\ UNCHANGED <<ms_dev, ms_cache>>
       ELSE LET stop == ms_dev.stop IN
            IF StartRejected(v, stop)
            THEN /\ ms_call' = [MSEnter("start", v) EXCEPT
                                  !.wire = <<Cmd("STOP?", NoVal)>>,
                                  !.out = "raised"]
                 /\ ms_cache' = [ms_cache EXCEPT !.stop = Some(stop)]
                 /\ UNCHANGED ms_dev
            ELSE \E applied \in StartApplied(v) :
                 /\ ms_dev' = [ms_dev EXCEPT !.start = applied]
                 /\ ms_call' = [MSEnter("start", v) EXCEPT
                                  !.wire = <<Cmd("STOP?", NoVal), Cmd("STARt", v),
                                             Cmd("STARt?", NoVal)>>,
                                  !.warned = Drifted(v, applied),
                                  !.out = "returned"]
                 /\ ms_cache' = [start |-> Some(v), stop |-> Some(stop)]

\* stop(v): the set wrapper validates, then _set_stop (lines 230-240) reads
\* start and compares; it writes nothing; the wrapper caches v
MSSetStop(v) ==
    /\ MSIdle
    /\ IF ~ValidStop(v)
       THEN /\ ms_call' = [MSEnter("stop", v) EXCEPT !.out = "raised"]
            /\ UNCHANGED <<ms_dev, ms_cache>>
       ELSE LET start == ms_dev.start IN
            IF StopRejected(v, start)
            THEN /\ ms_call' = [MSEnter("stop", v) EXCEPT
                                  !.wire = <<Cmd("STARt?", NoVal)>>,
                                  !.out = "raised"]
                 /\ ms_cache' = [ms_cache EXCEPT !.start = Some(start)]
                 /\ UNCHANGED ms_dev
            ELSE /\ ms_call' = [MSEnter("stop", v) EXCEPT
                                  !.wire = <<Cmd("STARt?", NoVal)>>,
                                  !.out = "returned"]
                 /\ ms_cache' = [start |-> Some(start), stop |-> Some(v)]
                 /\ UNCHANGED ms_dev

\* the start / stop pairs the device may hold after a centre or span write
DevPairs == {p \in DevFreqs \X DevFreqs : FLt(p[1], p[2])}

\* lines 258-264: update_trace gets start and stop
\* center(v) / span(v): lines 241-255, write and update_trace
MSSetCenterSpan(op, v) ==
    /\ MSIdle
    /\ op \in {"center", "span"}
    /\ IF ~(IF op = "center" THEN ValidCenter(v) ELSE ValidSpan(v))
       THEN /\ ms_call' = [MSEnter(op, v) EXCEPT !.out = "raised"]
            /\ UNCHANGED <<ms_dev, ms_cache>>
       ELSE \E p \in DevPairs :
            /\ ms_dev' = [ms_dev EXCEPT !.start = p[1], !.stop = p[2]]
            /\ ms_call' = [MSEnter(op, v) EXCEPT
                             !.wire = <<Cmd(IF op = "center" THEN "CENTer" ELSE "SPAN", v),
                                        Cmd("STARt?", NoVal), Cmd("STOP?", NoVal)>>,
                             !.out = "returned"]
            /\ ms_cache' = [start |-> Some(p[1]), stop |-> Some(p[2])]

\* npts(n): lines 267-271
MSSetNpts(n) ==
    /\ MSIdle
    /\ IF ~ValidNpts(n)
       THEN /\ ms_call' = [MSEnter("npts", Hz(0, n)) EXCEPT !.out = "raised"]
            /\ UNCHANGED ms_dev
       ELSE /\ ms_dev' = [ms_dev EXCEPT !.npts = n]
            /\ ms_call' = [MSEnter("npts", Hz(0, n)) EXCEPT
                             !.wire = <<Cmd("POINts", Hz(0, n))>>,
                             !.out = "returned"]
    /\ UNCHANGED ms_cache

\* start() / stop(): get_cmd with get_parser=float (lines 59-61, 69-71)
MSGet(op) ==
    /\ MSIdle
    /\ op \in {"get_start", "get_stop"}
    /\ ms_call' = [MSEnter(op, NoVal) EXCEPT
                     !.wire = <<Cmd(IF op = "get_start" THEN "STARt?" ELSE "STOP?", NoVal)>>,
                     !.out = "returned"]
    /\ ms_cache' = IF op = "get_start"
                   THEN [ms_cache EXCEPT !.start = Some(ms_dev.start)]
                   ELSE [ms_cache EXCEPT !.stop = Some(ms_dev.stop)]
    /\ UNCHANGED ms_dev

\* the call is over and the caller may call again
MSReturn ==
    /\ ~MSIdle
    /\ ms_call' = NoCall
    /\ UNCHANGED <<ms_dev, ms_cache>>

\* after construction: nothing cached, the device in any state it allows
MSInit ==
    /\ \E p \in DevPairs : ms_dev = [start |-> p[1], stop |-> p[2], npts |-> MinPoints]
    /\ ms_cache = [start |-> FNone, stop |-> FNone]
    /\ ms_call = NoCall

\* ------------------------------------------------------------------------
\* BlueFors: temperatures and pressures read from the day's log files
\* ------------------------------------------------------------------------
\* the last date of the run
LastDay == 2
\* most rows the logging process completes in one file
MaxRows == 2
\* the 'chN_pressure' columns named at lines 197-202
Gauges == 6

Days == 1..LastDay
TChans == {1, 2}
PChans == 1..Gauges

\* 'CH<channel> T <date>.log' and 'maxigauge <date>.log'
TFile(channel) == [kind |-> "T", ch |-> channel]
PFile == [kind |-> "P", ch |-> 0]
LogFiles == {TFile(ch) : ch \in TChans} \cup {PFile}

\* the value the logging process wrote in a column of a row of a file
Cell(day, file, row, col) == [day |-> day, file |-> file, row |-> row, col |-> col]
NoCell == Cell(0, PFile, 0, 0)
CNone == [set |-> FALSE, v |-> NoCell]

\* a row under way: cut inside the date field, cut inside the time field,
\* or cut before the value
Tails == {"none", "date_cut", "time_cut", "no_value"}

\* the date text the logging process writes: a temperature log starts each
\* line with a space, the maxigauge log does not
DateText(file) == IF file.kind = "T" THEN " dd-mm-yy" ELSE "dd-mm-yy"

\* the value columns of a file: 'y', or 'ch1_pressure' .. 'ch6_pressure'
Columns(file) == IF file.kind = "T" THEN {1} ELSE 1..Gauges

\* the columns of a row that the get functions read
FullRow(day, file, r) ==
    [date |-> DateText(file), time |-> "HH:MM:SS",
     y |-> [col \in Columns(file) |-> Some(Cell(day, file, r, col))]]
TailRow(file, tail) ==
    [date |-> IF tail = "date_cut" THEN " dd-" ELSE DateText(file),
     time |-> CASE tail = "date_cut" -> "NaN"
                [] tail = "time_cut" -> "HH:M"
                [] OTHER -> "HH:MM:SS",
     y |-> [col \in Columns(file) |-> CNone]]

\* pd.read_csv(..., header=None): the rows of the file, a missing field NaN
ReadCsv(day, file, f) ==
    [r \in 1..f.rows |-> FullRow(day, file, r)]
        \o (IF f.tail = "none" THEN <<>> ELSE <<TailRow(file, f.tail)>>)

\* pd.to_datetime(df['date'] + '-' + df['time'], format=...): a NaN field
\* gives NaT; any other text must match the format or ValueError is raised
Matches(format, date, time) ==
    /\ time = "HH:MM:SS"
    /\ \/ format = " %d-%m-%y-%H:%M:%S" /\ date = " dd-mm-yy"
       \/ format = "%d-%m-%y-%H:%M:%S" /\ date = "dd-mm-yy"
ToDatetimeRaises(format, rows) ==
    \E i \in 1..Len(rows) :
        /\ rows[i].date # "NaN"
        /\ rows[i].time # "NaN"
        /\ ~Matches(format, rows[i].date, rows[i].time)

\* date.today().strftime("%y-%m-%d")
FolderName == bf_today

\* (variant: the first row is returned)
PickedRowFirst(rows) == rows[1]

\* df.iloc[-1]
PickedRow(rows) == rows[Len(rows)]

\* the condition of the file a get reads
Condition(f, denied) ==
    CASE ~f.exists -> "missing"
      [] denied -> "denied"
      [] f.rows = 0 /\ f.tail = "none" -> "empty"
      [] f.tail = "time_cut" -> "unparsable"
      [] f.tail = "none" -> "wellformed"
      [] OTHER -> "cut"

NoGet == [op |-> "none", channel |-> 0, cond |-> "none", out |-> "none",
          val |-> CNone]

BFIdle == bf_call.op = "none"

\* lines 160-175 / 193-214: read the file, parse the index, return the
\* last row's column; OSError and IndexError give np.nan
ReadLatest(op, channel, file, format, col, denied) ==
    LET f == bf_files[FolderName][file]
        rows == ReadCsv(FolderName, file, f)
        got == [NoGet EXCEPT !.op = op, !.channel = channel,
                             !.cond = Condition(f, denied)]
    IN  IF ~f.exists \/ denied
        THEN [got EXCEPT !.out = "nan"]
        ELSE IF ToDatetimeRaises(format, rows)
        THEN [got EXCEPT !.out = "raised"]
        ELSE IF rows = <<>>
        THEN [got EXCEPT !.out = "nan"]
        ELSE LET y == PickedRow(rows).y[col] IN
             IF y.set THEN [got EXCEPT !.out = "value", !.val = y]
             ELSE [got EXCEPT !.out = "nan"]

\* get_temperature(channel): lines 157-175; the value is column 'y'
GetTemperature(channel) ==
    /\ BFIdle
    /\ \E denied \in BOOLEAN :
         bf_call' = ReadLatest("temperature", channel, TFile(channel),
                               " %d-%m-%y-%H:%M:%S", 1, denied)
    /\ UNCHANGED <<bf_today, bf_files, bf_focus>>

\* get_pressure(channel): lines 190-214; the value is 'ch<channel>_pressure'
GetPressure(channel) ==
    /\ BFIdle
    /\ \E denied \in BOOLEAN :
         bf_call' = ReadLatest("pressure", channel, PFile,
                               "%d-%m-%y-%H:%M:%S", channel, denied)
    /\ UNCHANGED <<bf_today, bf_files, bf_focus>>

\* the call is over and the caller may call again
BFReturn ==
    /\ ~BFIdle
    /\ bf_call' = NoGet
    /\ UNCHANGED <<bf_today, bf_files, bf_focus>>

\* the logging process creates today's file, writes part of a row,
\* completes a row
WriterCreate ==
    /\ BFIdle
    /\ ~bf_files[bf_today][bf_focus].exists
    /\ bf_files' = [bf_files EXCEPT ![bf_today][bf_focus].exists = TRUE]
    /\ UNCHANGED <<bf_today, bf_focus, bf_call>>

WriterPartial(tail) ==
    /\ BFIdle
    /\ tail # "none"
    /\ bf_files[bf_today][bf_focus].exists
    /\ bf_files[bf_today][bf_focus].rows < MaxRows
    /\ bf_files' = [bf_files EXCEPT ![bf_today][bf_focus].tail = tail]
    /\ UNCHANGED <<bf_today, bf_focus, bf_call>>

WriterComplete ==
    /\ BFIdle
    /\ bf_files[bf_today][bf_focus].exists
    /\ bf_files[bf_today][bf_focus].rows < MaxRows
    /\ bf_files' = [bf_files EXCEPT ![bf_today][bf_focus].rows = @ + 1,
                                    ![bf_today][bf_focus].tail = "none"]
    /\ UNCHANGED <<bf_today, bf_focus, bf_call>>

\* midnight: date.today() changes; no row is under way
DayChange ==
    /\ BFIdle
    /\ bf_today < LastDay
    /\ bf_files[bf_today][bf_focus].tail = "none"
    /\ bf_today' = bf_today + 1
    /\ UNCHANGED <<bf_files, bf_focus, bf_call>>

\* one log file is followed from its creation on; every other file holds
\* one complete row on every date
BFInit ==
    /\ bf_today = 1
    /\ bf_focus \in LogFiles
    /\ bf_files = [d \in Days |-> [f \in LogFiles |->
                     IF f = bf_focus
                     THEN [exists |-> FALSE, rows |-> 0, tail |-> "none"]
                     ELSE [exists |-> TRUE, rows |-> 1, tail |-> "none"]]]
    /\ bf_call = NoGet

\* ------------------------------------------------------------------------
\* HV324 identity parser (text is a sequence of characters)
\* ------------------------------------------------------------------------
DigitChars == <<"0", "1", "2", "3", "4", "5", "6", "7", "8", "9">>
IsDigit(ch) == \E d \in 1..10 : DigitChars[d] = ch
DigitVal(ch) == (CHOOSE d \in 1..10 : DigitChars[d] = ch) - 1

RECURSIVE Pow10(_)
Pow10(k) == IF k = 0 THEN 1 ELSE 10 * Pow10(k - 1)

\* f"{n:0<w>d}" for 0 <= n < 10^w
Format(n, w) == [i \in 1..w |-> DigitChars[((n \div Pow10(w - i)) % 10) + 1]]

\* int(text) / float(text) of a run of digits
RECURSIVE ToNumber(_)
ToNumber(text) ==
    IF text = <<>> THEN 0
    ELSE 10 * ToNumber(SubSeq(text, 1, Len(text) - 1)) + DigitVal(text[Len(text)])

VariantLetters == {"b", "u", "q", "s", "m"}

\* (variant: 'm' mapped to the same name as 'b')
OutputTypeMerged(letter) ==
    CASE letter = "b" -> "bipolar"
      [] letter = "u" -> "unipolar"
      [] letter = "q" -> "quadrupole"
      [] letter = "s" -> "steerer"
      [] letter = "m" -> "bipolar"
      [] OTHER -> "None"

\* lines 162-168: the output_type dictionary's get
OutputType(letter) ==
    CASE letter = "b" -> "bipolar"
      [] letter = "u" -> "unipolar"
      [] letter = "q" -> "quadrupole"
      [] letter = "s" -> "steerer"
      [] letter = "m" -> "bipolar milivolt"
      [] OTHER -> "None"

\* r"(HV|BS)(\d{3}) (\d{3}) (\d{2}) ([buqsm])" matched at position i
PatternLen == 14
MatchAt(text, i) ==
    /\ i + PatternLen - 1 <= Len(text)
    /\ SubSeq(text, i, i + 1) \in {<<"H", "V">>, <<"B", "S">>}
    /\ \A k \in {2, 3, 4, 6, 7, 8, 10, 11} : IsDigit(text[i + k])
    /\ \A k \in {5, 9, 12} : text[i + k] = " "
    /\ text[i + 13] \in VariantLetters

\* re.search: the leftmost match, 0 for None
Search(text) ==
    IF \E i \in 1..Len(text) : MatchAt(text, i)
    THEN CHOOSE i \in 1..Len(text) :
            MatchAt(text, i) /\ \A j \in 1..(i - 1) : ~MatchAt(text, j)
    ELSE 0

NoInfo == [set |-> FALSE, model |-> <<>>, serial_number |-> <<>>,
           voltage_range |-> 0, n_channels |-> 0, output_type |-> "None"]

\* parse_idn_string, lines 142-174: unset stands for the RuntimeError
ParseIdnString(text) ==
    LET i == Search(text) IN
    IF i = 0 THEN NoInfo
    ELSE [set |-> TRUE,
          model |-> SubSeq(text, i, i + 1),
          serial_number |-> SubSeq(text, i + 2, i + 4),
          voltage_range |-> ToNumber(SubSeq(text, i + 6, i + 8)),
          n_channels |-> ToNumber(SubSeq(text, i + 10, i + 11)),
          output_type |-> OutputType(text[i + 13])]

\* the reply a device with the given identity sends
BuildReply(in) ==
    in.prefix \o in.model \o Format(in.serial, 3) \o <<" ">>
        \o Format(in.range, 3) \o <<" ">> \o Format(in.nch, 2)
        \o (IF in.variant = "" THEN <<>> ELSE <<" ", in.variant>>)

\* most channels a drawn identity reports
MaxChannels == 3

IdnInputs ==
    [prefix : {<<>>, <<"#", " ">>},
     model : {<<"H", "V">>, <<"B", "S">>, <<"H", "S">>},
     serial : {7, 123},
     range : {0, 5, 200},
     nch : {0, 1, MaxChannels},
     variant : VariantLetters \cup {"", "x"}]

\* ------------------------------------------------------------------------
\* Replies as text: numbers, fields, mapped tokens
\* ------------------------------------------------------------------------
\* Numbers read from and written to the wire are kept as integers of
\* millionths (the six decimals of the CH command).
Million == 1000000

\* str.strip(): float() and int() ignore surrounding blanks
RECURSIVE Strip(_)
Strip(text) ==
    IF text = <<>> THEN text
    ELSE IF Head(text) = " " THEN Strip(Tail(text))
    ELSE IF text[Len(text)] = " " THEN Strip(SubSeq(text, 1, Len(text) - 1))
    ELSE text

\* str.split(','): the fields between the commas, '' giving ['']
RECURSIVE Split(_)
Split(text) ==
    IF \E i \in 1..Len(text) : text[i] = ","
    THEN LET i == CHOOSE k \in 1..Len(text) :
                     text[k] = "," /\ \A j \in 1..(k - 1) : text[j] # ","
         IN  <<SubSeq(text, 1, i - 1)>> \o Split(SubSeq(text, i + 1, Len(text)))
    ELSE <<text>>

\* re.sub(r'mA', '', val): every 'mA' is taken out, left to right
RECURSIVE RemoveMA(_)
RemoveMA(text) ==
    IF Len(text) < 2 THEN text
    ELSE IF text[1] = "m" /\ text[2] = "A" THEN RemoveMA(SubSeq(text, 3, Len(text)))
    ELSE <<text[1]>> \o RemoveMA(Tail(text))

\* the text without its sign
Unsigned(text) ==
    IF text # <<>> /\ Head(text) \in {"+", "-"} THEN Tail(text) ELSE text

\* the digits before and after the decimal point of an unsigned text
IntDigits(body) ==
    IF \E i \in 1..Len(body) : body[i] = "."
    THEN SubSeq(body, 1, (CHOOSE i \in 1..Len(body) : body[i] = "."
                              /\ \A j \in 1..(i - 1) : body[j] # ".") - 1)
    ELSE body
FracDigits(body) ==
    IF \E i \in 1..Len(body) : body[i] = "."
    THEN SubSeq(body, (CHOOSE i \in 1..Len(body) : body[i] = "."
                          /\ \A j \in 1..(i - 1) : body[j] # ".") + 1, Len(body))
    ELSE <<>>

AllDigits(text) == \A i \in 1..Len(text) : IsDigit(text[i])

\* float(text) succeeds: blanks, a sign, digits with at most one point and
\* at least one digit (exponents, inf and nan are not drawn as replies)
IsFloatText(text) ==
    LET body == Unsigned(Strip(text)) IN
    /\ AllDigits(IntDigits(body))
    /\ AllDigits(FracDigits(body))
    /\ Len(IntDigits(body)) + Len(FracDigits(body)) > 0

\* float(text), in millionths, for a text of at most six decimals
FloatValue(text) ==
    LET t == Strip(text)
        body == Unsigned(t)
        frac == FracDigits(body)
        whole == ToNumber(IntDigits(body)) * Million
                   + ToNumber(frac) * Pow10(6 - Len(frac))
    IN  IF t # <<>> /\ Head(t) = "-" THEN -whole ELSE whole

\* int(text) succeeds: blanks, a sign, digits
IsIntText(text) ==
    LET body == Unsigned(Strip(text)) IN body # <<>> /\ AllDigits(body)

IntValue(text) ==
    LET t == Strip(text) IN
    IF Head(t) = "-" THEN -ToNumber(Unsigned(t)) ELSE ToNumber(Unsigned(t))

\* the decimal digits of n >= 0, without leading zeros
RECURSIVE Digits(_)
Digits(n) ==
    IF n < 10 THEN <<DigitChars[n + 1]>>
    ELSE Digits(n \div 10) \o <<DigitChars[(n % 10) + 1]>>

\* str(n) of an integer
IntText(n) == IF n < 0 THEN <<"-">> \o Digits(-n) ELSE Digits(n)

\* f"{x:.6f}" of a number of millionths
FixedText(m) ==
    LET a == IF m < 0 THEN -m ELSE m IN
    (IF m < 0 THEN <<"-">> ELSE <<>>)
        \o Digits(a \div Million) \o <<".">> \o Format(a % Million, 6)

\* ------------------------------------------------------------------------
\* val_mapping: symbols and the tokens they are sent as
\* ------------------------------------------------------------------------
IntTok(n) == [int |-> TRUE, n |-> n, t |-> <<>>]
StrTok(t) == [int |-> FALSE, n |-> 0, t |-> t]

\* create_on_off_val_mapping(on_val, off_val): the spellings of on, then
\* True, all mapped to on_val; the spellings of off, then False, all mapped
\* to off_val
CreateOnOffValMapping(on_val, off_val) ==
    <<(<<"On", on_val>>), (<<"ON", on_val>>), (<<"on", on_val>>),
      (<<"1", on_val>>), (<<"True", on_val>>),
      (<<"Off", off_val>>), (<<"OFF", off_val>>), (<<"off", off_val>>),
      (<<"0", off_val>>), (<<"False", off_val>>)>>

\* the val_mapping dictionaries of the drivers, in their written order
ValMappings ==
    [
     \* SG384.py lines 51-52
     sg_noise_mode |->
       <<(<<"Mode 1", IntTok(0)>>),
         (<<"Mode 2", IntTok(1)>>)>>,
     \* SG384.py lines 57-58
     sg_enable_RF |->
       <<(<<"OFF", IntTok(0)>>),
         (<<"ON", IntTok(1)>>)>>,
     \* SG384.py lines 63-64
     sg_enable_LF |->
       <<(<<"OFF", IntTok(0)>>),
         (<<"ON", IntTok(1)>>)>>,
     \* SG384.py lines 78-79
     sg_modulation_coupling |->
       <<(<<"AC", IntTok(0)>>),
         (<<"DC", IntTok(1)>>)>>,
     \* SG384.py lines 91-96
     sg_modulation_function |->
       <<(<<"Sine", IntTok(0)>>),
         (<<"Ramp", IntTok(1)>>),
         (<<"Triangle", IntTok(2)>>),
         (<<"Square", IntTok(3)>>),
         (<<"Noise", IntTok(4)>>),
         (<<"External", IntTok(5)>>)>>,
     \* SG384.py lines 100-101
     sg_enable_modulation |->
       <<(<<"OFF", IntTok(0)>>),
         (<<"ON", IntTok(1)>>)>>,
     \* SG384.py lines 111-117
     sg_modulation_type |->
       <<(<<"AM", IntTok(0)>>),
         (<<"FM", IntTok(1)>>),
         (<<"Phi", IntTok(2)>>),
         (<<"Sweep", IntTok(3)>>),
         (<<"Pulse", IntTok(4)>>),
         (<<"Blank", IntTok(5)>>),
         (<<"IQ", IntTok(6)>>)>>,
     \* AFG31000.py lines 75-86
     afg_type |->
       <<(<<"SINE", StrTok(<<"S", "I", "N">>)>>),
         (<<"SQUARE", StrTok(<<"S", "Q", "U">>)>>),
         (<<"PULSE", StrTok(<<"P", "U", "L", "S">>)>>),
         (<<"RAMP", StrTok(<<"R", "A", "M", "P">>)>>),
         (<<"NOISE", StrTok(<<"P", "R", "N">>)>>),
         (<<"DC", StrTok(<<"D", "C">>)>>),
         (<<"SINC", StrTok(<<"S", "I", "N", "C">>)>>),
         (<<"GAUSS", StrTok(<<"G", "A", "U", "S">>)>>),
         (<<"LORENTZ", StrTok(<<"L", "O", "R">>)>>),
         (<<"ERISE", StrTok(<<"E", "R", "I", "S">>)>>),
         (<<"EDECAY", StrTok(<<"E", "D", "E", "C">>)>>),
         (<<"HAVERSINE", StrTok(<<"H", "A", "V">>)>>)>>,
     \* LI5660.py lines 89-92
     li_output_config |->
       <<(<<"R,T", IntTok(6)>>),
         (<<"X,Y", IntTok(24)>>),
         (<<"R,T,X,Y", IntTok(30)>>)>>,
     \* AH2500A.py lines 15-17
     ah_mode |->
       <<(<<"single", StrTok(<<"S", "I", "N", "G", "L", "E">>)>>),
         (<<"cont", StrTok(<<"C", "O", "N", "T", "I", "N", "U", "O", "U", "S">>)>>)>>,
     \* MS2830.py line 128
     ms_cont_meas |->
       CreateOnOffValMapping(StrTok(<<"O", "N">>), StrTok(<<"O", "F", "F">>))
    ]

MappedParams == DOMAIN ValMappings

\* the symbols of a mapping
Symbols(m) == {ValMappings[m][i][1] : i \in 1..Len(ValMappings[m])}

\* val_mapping[symbol]
Encode(m, sym) ==
    CHOOSE i \in 1..Len(ValMappings[m]) : ValMappings[m][i][1] = sym

\* the token a symbol is sent as
EncodeToken(m, sym) == ValMappings[m][Encode(m, sym)][2]

\* str(raw) in the set command
TokenText(tok) == IF tok.int THEN IntText(tok.n) ELSE tok.t

\* inverse_val_mapping = {v: k for k, v in val_mapping.items()}: of the
\* symbols sharing a token, the one written last is kept
InversePairs(m) ==
    {i \in 1..Len(ValMappings[m]) :
        \A j \in (i + 1)..Len(ValMappings[m]) :
            ValMappings[m][j][2] # ValMappings[m][i][2]}

\* (variant: of the symbols sharing a token, the one written first is kept)
TokenOfReplyFirst(m, reply) ==
    {i \in 1..Len(ValMappings[m]) :
        /\ \A j \in 1..(i - 1) : ValMappings[m][j][2] # ValMappings[m][i][2]
        /\ \/ ValMappings[m][i][2] = StrTok(reply)
           \/ (/\ ~\E k \in 1..Len(ValMappings[m]) : ValMappings[m][k][2] = StrTok(reply)
               /\ IsIntText(reply)
               /\ ValMappings[m][i][2] = IntTok(IntValue(reply)))}

\* the kept pairs a reply decodes through: the reply itself as a key,
\* else int(reply) as a key
TokenOfReply(m, reply) ==
    {i \in InversePairs(m) :
        \/ ValMappings[m][i][2] = StrTok(reply)
        \/ (/\ ~\E k \in InversePairs(m) : ValMappings[m][k][2] = StrTok(reply)
            /\ IsIntText(reply)
            /\ ValMappings[m][i][2] = IntTok(IntValue(reply)))}

\* the get wrapper's decoding raises KeyError: no key fits
DecodeRaises(m, reply) == TokenOfReply(m, reply) = {}

\* inverse_val_mapping[reply] or inverse_val_mapping[int(reply)]
Decode(m, reply) ==
    ValMappings[m][CHOOSE i \in TokenOfReply(m, reply) : TRUE][1]

\* ------------------------------------------------------------------------
\* Gets and sets of one parameter: decoding, scaling, caching
\* ------------------------------------------------------------------------
\* values of parameters: a symbol, a number n * 10^e, an array of numbers
NoValue == [kind |-> "none", s |-> "", n |-> 0, e |-> 0, a |-> <<>>]
SymValue(sym) == [NoValue EXCEPT !.kind = "sym", !.s = sym]
NumValue(n, e) == [NoValue EXCEPT !.kind = "num", !.n = n, !.e = e]
ArrValue(a) == [NoValue EXCEPT !.kind = "arr", !.a = a, !.e = -6]

\* the parameters read through a parser of the driver
ParsedParams ==
    {"hv_voltage", "hv_current", "li_R", "li_T", "li_X", "li_Y", "li_get_data"}

CodecParams == ParsedParams \cup MappedParams

\* AH2500A.mode has no get_cmd
Gettable(p) == p # "ah_mode"

\* parameters with a set_cmd among those modelled here
Settable(p) == p = "hv_voltage" \/ p \in MappedParams

\* the field index read by _fetch_R / _fetch_T / _fetch_X / _fetch_Y
FieldIndex == [li_R |-> 0, li_T |-> 1, li_X |-> 2, li_Y |-> 3]

\* the voltage ranges a parent HV324 holds (with the replies drawn, the
\* scaled values stay within 32 bits)
RangeArgs == {0, 1, 5, 10, 100}

\* the replies drawn for a get
ReplyTexts ==
    {<<"0", ".", "7", "5">>,
     <<" ", "0", ".", "2", "5", "0", "0", "0", "0", " ">>,
     <<"1", ".", "5">>,
     <<"-", "2">>,
     <<"2", ".", "0", "0", "0", "0", "0", "0">>,
     <<"a", "b", "c">>,
     <<>>,
     <<"1", "2", ".", "5", "m", "A">>,
     <<"m", "A">>,
     <<"1", ",", "2">>,
     <<"0", ".", "5", ",", "9", "0", ",", "0", ",", "0", ".", "5">>,
     <<"1", ",", ",", "3", ",", "4">>,
     <<"1", ",", "x">>,
     <<"1">>,
     <<"7">>,
     <<"S", "I", "N">>,
     <<"O", "N">>,
     <<"F", "O", "O">>,
     <<"6">>,
     <<"0">>}

\* voltages, in millionths of a volt, drawn for a set of the HV324 voltage
VoltArgs ==
    {-10 * Million - 1, -10 * Million, -9999999, -2500001, -1, 0, 1, 3,
     123457, 5000001, 10 * Million, 10 * Million + 1}

\* round(a / b) to the nearest integer, ties to the even one, for b > 0
RoundDiv(a, b) ==
    LET q == a \div b
        r == a % b
    IN  IF 2 * r < b THEN q
        ELSE IF 2 * r > b THEN q + 1
        ELSE IF q % 2 = 0 THEN q ELSE q + 1

\* line 69: voltage/(2*self.parent.voltage_range)+0.5, as the code of
\* millionths that line 70 formats with six decimals
VoltageCode(v, range) == RoundDiv(v, 2 * range) + (Million \div 2)

\* (variant: the factor 2 of line 64 is missing)
VoltageOfCodeHalved(raw, range) == (raw - (Million \div 2)) * range

\* line 64: round((float(get_raw)-0.5)*2*(self.parent.voltage_range),6)
VoltageOfCode(raw, range) == (raw - (Million \div 2)) * 2 * range

\* output.split(',')[k] raises IndexError
FieldMissing(fields, k) == Len(fields) <= k

Raised == [ok |-> FALSE, val |-> NoValue]
Got(val) == [ok |-> TRUE, val |-> val]

\* what a get of parameter p makes of a reply: the value, or an exception
GetResult(p, reply, range) ==
    CASE p = "hv_voltage" ->
           \* lines 62-64, get_parser=float
           IF IsFloatText(reply)
           THEN Got(NumValue(VoltageOfCode(FloatValue(reply), range), -6))
           ELSE Raised
      [] p = "hv_current" ->
           \* _I_parser, lines 22-26: float(float(re.sub(...)) / 1000), mA
           \* of six decimals being A of nine
           IF IsFloatText(RemoveMA(reply))
           THEN Got(NumValue(FloatValue(RemoveMA(reply)), -9))
           ELSE Raised
      [] p \in DOMAIN FieldIndex ->
           \* LI5660 lines 104-118
           LET fields == Split(reply) IN
           IF FieldMissing(fields, FieldIndex[p]) THEN Raised
           ELSE IF ~IsFloatText(fields[FieldIndex[p] + 1]) THEN Raised
           ELSE Got(NumValue(FloatValue(fields[FieldIndex[p] + 1]), -6))
      [] p = "li_get_data" ->
           \* LI5660 lines 99-101
           LET fields == Split(reply) IN
           IF \E i \in 1..Len(fields) : ~IsFloatText(fields[i]) THEN Raised
           ELSE Got(ArrValue([i \in 1..Len(fields) |-> FloatValue(fields[i])]))
      [] OTHER ->
           \* val_mapping parameters
           IF DecodeRaises(p, reply) THEN Raised
           ELSE Got(SymValue(Decode(p, reply)))

NoDev == [set |-> FALSE, text |-> <<>>, of |-> NoValue]

\* (variant: a get that raises empties the cache)
CacheAfterGetCleared(res, cache) == IF res.ok THEN res.val ELSE NoValue

\* the get wrapper writes the cache after the value is decoded: an
\* exception of the decoding leaves the cache as it was
CacheAfterGet(res, cache) == IF res.ok THEN res.val ELSE cache

NoCodecCall ==
    [op |-> "none", arg |-> NoValue, reply |-> <<>>, echo |-> FALSE,
     out |-> "none", val |-> NoValue, pre |-> NoValue]

CodecIdle == cd_call.op = "none"

\* p(): the reply is decoded, the value cached and returned; an exception
\* of the decoding leaves the get before the cache is written
CodecGet(reply, echo) ==
    /\ CodecIdle
    /\ Gettable(cd_param)
    /\ LET res == GetResult(cd_param, reply, cd_range) IN
       /\ cd_call' = [NoCodecCall EXCEPT
                        !.op = "get", !.reply = reply, !.echo = echo,
                        !.out = IF res.ok THEN "returned" ELSE "raised",
                        !.val = res.val, !.pre = cd_cache]
       /\ cd_cache' = CacheAfterGet(res, cd_cache)
    /\ UNCHANGED <<cd_param, cd_range, cd_dev>>

\* a get answered with any of the drawn replies
CodecGetAny == \E reply \in ReplyTexts : CodecGet(reply, FALSE)

\* a get answered by a device that returns the text it was last sent
CodecGetEcho == cd_dev.set /\ CodecGet(cd_dev.text, TRUE)

\* p(sym) of a val_mapping parameter: the symbol must be a key; its token
\* is written; the symbol is cached
CodecSetSymbol(sym) ==
    /\ CodecIdle
    /\ cd_param \in MappedParams
    /\ IF sym \notin Symbols(cd_param)
       THEN /\ cd_call' = [NoCodecCall EXCEPT !.op = "set", !.arg = SymValue(sym),
                                  !.out = "raised", !.pre = cd_cache]
            /\ UNCHANGED <<cd_cache, cd_dev>>
       ELSE /\ cd_call' = [NoCodecCall EXCEPT !.op = "set", !.arg = SymValue(sym),
                                  !.out = "returned", !.pre = cd_cache]
            /\ cd_dev' = [set |-> TRUE,
                          text |-> TokenText(EncodeToken(cd_param, sym)),
                          of |-> SymValue(sym)]
            /\ cd_cache' = SymValue(sym)
    /\ UNCHANGED <<cd_param, cd_range>>

\* voltage(v), lines 68-72, with the step unset and the reply an ACK: the
\* validator, then the division by the range, then the CH command
CodecSetVoltage(v) ==
    /\ CodecIdle
    /\ cd_param = "hv_voltage"
    /\ IF v < VMin * Million \/ v > VMax * Million \/ cd_range = 0
       THEN /\ cd_call' = [NoCodecCall EXCEPT !.op = "set", !.arg = NumValue(v, -6),
                                  !.out = "raised", !.pre = cd_cache]
            /\ UNCHANGED <<cd_cache, cd_dev>>
       ELSE /\ cd_call' = [NoCodecCall EXCEPT !.op = "set", !.arg = NumValue(v, -6),
                                  !.out = "returned", !.pre = cd_cache]
            /\ cd_dev' = [set |-> TRUE,
                          text |-> FixedText(VoltageCode(v, cd_range)),
                          of |-> NumValue(v, -6)]
            /\ cd_cache' = NumValue(v, -6)
    /\ UNCHANGED <<cd_param, cd_range>>

\* the call is over and the caller may call again
CodecReturn ==
    /\ ~CodecIdle
    /\ cd_call' = NoCodecCall
    /\ UNCHANGED <<cd_param, cd_range, cd_cache, cd_dev>>

\* one parameter of one instrument, nothing cached or sent yet; the range
\* matters to the HV324 voltage only
CodecInit ==
    /\ cd_param \in CodecParams
    /\ cd_range \in RangeArgs
    /\ (cd_param # "hv_voltage" => cd_range = 1)
    /\ cd_cache = NoValue
    /\ cd_dev = NoDev
    /\ cd_call = NoCodecCall

\* ------------------------------------------------------------------------
\* HV324.__init__ and AFG31000.__init__
\* ------------------------------------------------------------------------
\* (variant: DIS AUTO 0 is sent before the reply is parsed)
HVParseLate ==
    /\ hv_pc = "start"
    /\ hv_info' = ParseIdnString(BuildReply(hv_input))
    /\ hv_wire' = <<"IDN", "DIS AUTO 0">>
    /\ hv_pc' = IF hv_info'.set THEN "channels" ELSE "raised"
    /\ UNCHANGED <<hv_input, hv_children, hv_names>>

\* lines 103-108: ask IDN, parse the reply, keep the fields
HVParse ==
    /\ hv_pc = "start"
    /\ hv_info' = ParseIdnString(BuildReply(hv_input))
    /\ hv_wire' = <<"IDN">>
    /\ hv_pc' = IF hv_info'.set THEN "dis_auto" ELSE "raised"
    /\ UNCHANGED <<hv_input, hv_children, hv_names>>

\* line 110: self.ask("... DIS AUTO 0")
HVDisAuto ==
    /\ hv_pc = "dis_auto"
    /\ hv_wire' = Append(hv_wire, "DIS AUTO 0")
    /\ \E failed \in BOOLEAN : hv_pc' = IF failed THEN "raised" ELSE "channels"
    /\ UNCHANGED <<hv_input, hv_info, hv_children, hv_names>>

\* ch_names: not a dictionary, or a dictionary given as its set of
\* <<channel number, name>> items
NoDict == [set |-> FALSE, v |-> {}]

\* f"ch{channel_number:02d}"
DefaultName(n) == <<"c", "h">> \o Format(n, 2)

UserName == <<"g", "a", "t", "e">>
ListName == <<"c", "h", "a", "n", "n", "e", "l">>

\* dictionaries drawn for ch_names: two numbers with one name, a name equal
\* to a later / an earlier channel's default name (that channel keeping it,
\* or renamed as well), the channel list's name, a channel's own default
\* name, one fresh name, no name
ChNamesArgs ==
    {NoDict,
     Some({}),
     Some({<<1, UserName>>}),
     Some({<<1, UserName>>, <<2, UserName>>}),
     Some({<<1, DefaultName(2)>>}),
     Some({<<1, DefaultName(2)>>, <<2, UserName>>}),
     Some({<<2, DefaultName(1)>>}),
     Some({<<2, DefaultName(2)>>}),
     Some({<<1, ListName>>})}

\* lines 117-123: the name of channel n
ChannelName(names, n) ==
    IF names.set /\ \E item \in names.v : item[1] = n
    THEN (CHOOSE item \in names.v : item[1] = n)[2]
    ELSE DefaultName(n)

\* (variant: add_submodule takes any name)
AttachRejectsNone(children, name) == FALSE

\* add_submodule (lines 129, 133): a name already among the submodules
\* raises KeyError
AttachRejects(children, name) == \E i \in 1..Len(children) : children[i] = name

\* lines 116-131: the next channel is created, attached and labelled
HVAddChannel ==
    /\ hv_pc = "channels"
    /\ Len(hv_children) < hv_info.n_channels
    /\ LET name == ChannelName(hv_names, Len(hv_children) + 1) IN
       IF AttachRejects(hv_children, name)
       THEN /\ hv_pc' = "raised"
            /\ UNCHANGED <<hv_children, hv_wire>>
       ELSE /\ hv_children' = Append(hv_children, name)
            /\ hv_wire' = Append(hv_wire, "DIS L")
            /\ \E failed \in BOOLEAN :
                 hv_pc' = IF failed THEN "raised" ELSE "channels"
    /\ UNCHANGED <<hv_input, hv_info, hv_names>>

\* lines 133-134: the channel list is attached; construction is over
HVFinish ==
    /\ hv_pc = "channels"
    /\ Len(hv_children) = hv_info.n_channels
    /\ IF AttachRejects(hv_children, ListName)
       THEN /\ hv_pc' = "raised"
            /\ UNCHANGED hv_children
       ELSE /\ hv_pc' = "done"
            /\ hv_children' = Append(hv_children, ListName)
    /\ UNCHANGED <<hv_input, hv_info, hv_wire, hv_names>>

\* _chan_amps = {'31252': 2.0}
AFGModels == {<<"3", "1", "2", "5", "2">>}
\* num_channels = 2
AFGNumChannels == 2

\* the models drawn for the AFG's IDN
AFGIdns == {<<"A", "F", "G", "3", "1", "2", "5", "2">>,
            <<"A", "F", "G", "3", "1", "1", "0", "2">>,
            <<"3", "1", "2", "5", "2">>}

\* lines 123-128: self.model = self.IDN()['model'][3:], checked
AFGCheckModel ==
    /\ afg_pc = "start"
    /\ afg_pc' = IF SubSeq(afg_idn, 4, Len(afg_idn)) \in AFGModels
                 THEN "channels" ELSE "raised"
    /\ UNCHANGED <<afg_idn, afg_children>>

\* lines 131-134: the next channel is created and attached
AFGAddChannel ==
    /\ afg_pc = "channels"
    /\ Len(afg_children) < AFGNumChannels
    /\ afg_children' = Append(afg_children, Len(afg_children) + 1)
    /\ UNCHANGED <<afg_idn, afg_pc>>

\* line 137: construction is over
AFGFinish ==
    /\ afg_pc = "channels"
    /\ Len(afg_children) = AFGNumChannels
    /\ afg_pc' = "done"
    /\ UNCHANGED <<afg_idn, afg_children>>

\* ------------------------------------------------------------------------
\* Channel objects constructed on a constructed instrument
\* ------------------------------------------------------------------------
NoXch == [kind |-> "none", index |-> 0, out |-> "none", params |-> <<>>]

\* the parameters AFGChannel.__init__ adds, lines 47-107
AFGChannelParams ==
    <<"state", "amplitude", "offset", "type", "pulse_period", "pulse_width",
      "cw_freq">>

\* the parameters StahlChannel.__init__ adds, lines 48-59
StahlChannelParams == <<"voltage", "current">>

\* line 41: channel not in list(range(1, num_channels+1))
AFGChannelIllegal(channel) == channel \notin 1..AFGNumChannels

\* AFGChannel(parent, name, channel), lines 24-107
AFGChannelNew(channel) ==
    /\ afg_pc = "done"
    /\ xch = NoXch
    /\ xch' = IF AFGChannelIllegal(channel)
              THEN [kind |-> "afg", index |-> channel, out |-> "raised",
                    params |-> <<>>]
              ELSE [kind |-> "afg", index |-> channel, out |-> "returned",
                    params |-> AFGChannelParams]
    /\ UNCHANGED <<afg_idn, afg_pc, afg_children>>

\* StahlChannel(parent, name, channel_number), lines 41-59: the number is
\* formatted and kept, never compared with the parent's n_channels
StahlChannelNew(channel_number) ==
    /\ hv_pc = "done"
    /\ xch = NoXch
    /\ xch' = [kind |-> "stahl", index |-> channel_number, out |-> "returned",
               params |-> StahlChannelParams]
    /\ UNCHANGED <<hv_input, hv_pc, hv_info, hv_wire, hv_children, hv_names>>

\* the constructor call is over
XchReturn ==
    /\ xch # NoXch
    /\ xch' = NoXch

CtorInit ==
    /\ hv_input \in IdnInputs
    /\ hv_names \in ChNamesArgs
    /\ hv_pc = "start"
    /\ hv_info = NoInfo
    /\ hv_wire = <<>>
    /\ hv_children = <<>>
    /\ afg_idn \in AFGIdns
    /\ afg_pc = "start"
    /\ afg_children = <<>>
    /\ xch = NoXch

\* ------------------------------------------------------------------------
\* Specifications
\* ------------------------------------------------------------------------
vars == <<stahlVars, liVars, msVars, bfVars, ctorVars, codecVars>>

StahlInit ==
    /\ vstep = None
    /\ vdelay = 0
    /\ vcache = None
    /\ pc = [c \in Threads |-> "idle"]
    /\ frame = [c \in Threads |-> NoFrame]
    /\ sent = [c \in Threads |-> <<>>]
    /\ io = [c \in Threads |-> 0]
    /\ pre = [c \in Threads |-> NoPre]

LIInit ==
    /\ slope = None
    /\ li_io = 0
    /\ li_out = "none"
    /\ li_pre = None
    /\ li_arg = 0

Init == StahlInit /\ LIInit /\ MSInit /\ BFInit /\ CtorInit /\ CodecInit

\* the instruments are separate objects: each specification below runs the
\* operations of one of them and holds the others in one initial state
MSPinned == ms_dev = [start |-> MinFreq, stop |-> MaxFreq, npts |-> MinPoints]
BFPinned == bf_focus = PFile
CtorPinned ==
    /\ hv_input = [prefix |-> <<>>, model |-> <<"H", "V">>, serial |-> 123,
                   range |-> 200, nch |-> MaxChannels, variant |-> "b"]
    /\ hv_names = NoDict
    /\ afg_idn = <<"A", "F", "G", "3", "1", "2", "5", "2">>

CodecPinned == cd_param = "hv_voltage" /\ cd_range = 100

InitRamp == MSPinned /\ BFPinned /\ CtorPinned /\ CodecPinned /\ Init
InitSet == MSPinned /\ BFPinned /\ CtorPinned /\ CodecPinned /\ Init
InitMS == BFPinned /\ CtorPinned /\ CodecPinned /\ Init
InitBF == MSPinned /\ CtorPinned /\ CodecPinned /\ Init
InitCtor == MSPinned /\ BFPinned /\ CodecPinned /\ Init
InitCodec == MSPinned /\ BFPinned /\ CtorPinned /\ Init

StahlOnly == UNCHANGED <<liVars, msVars, bfVars, ctorVars, codecVars>>
LIOnly == UNCHANGED <<stahlVars, msVars, bfVars, ctorVars, codecVars>>
MSOnly == UNCHANGED <<stahlVars, liVars, bfVars, ctorVars, codecVars>>
BFOnly == UNCHANGED <<stahlVars, liVars, msVars, ctorVars, codecVars>>
HVOnly == UNCHANGED <<stahlVars, liVars, msVars, bfVars, codecVars,
                      afg_idn, afg_pc, afg_children>>
AFGOnly == UNCHANGED <<stahlVars, liVars, msVars, bfVars, codecVars,
                       hv_input, hv_pc, hv_info, hv_wire, hv_children, hv_names>>
XchOnly == UNCHANGED <<stahlVars, liVars, msVars, bfVars, codecVars,
                       hv_input, hv_pc, hv_info, hv_wire, hv_children, hv_names,
                       afg_idn, afg_pc, afg_children>>

\* one caller at a time: ramps and gets of the channel, serialized
RampNext ==
    \/ (\E c \in Callers, t \in TargetArgs, s \in StepArgs, d \in DelayArgs :
           RampSave(c, t, s, d)) /\ StahlOnly
    \/ (\E c \in Callers : RampSaveDelay(c)) /\ StahlOnly
    \/ (\E c \in Callers : RampInstallStep(c)) /\ StahlOnly
    \/ (\E c \in Callers : RampInstallDelay(c)) /\ StahlOnly
    \/ (\E c \in Callers : RampAnnounce(c)) /\ StahlOnly
    \/ (\E c \in Callers : WalkBegin(c)) /\ StahlOnly
    \/ (\E c \in Callers : WalkStep(c)) /\ StahlOnly
    \/ (\E c \in Callers : WalkEnd(c)) /\ StahlOnly
    \/ (\E c \in Callers : RampAnnounceSet(c)) /\ StahlOnly
    \/ (\E c \in Callers : RampRestoreStep(c)) /\ StahlOnly
    \/ (\E c \in Callers : RampRestoreDelay(c)) /\ StahlOnly
    \/ (\E c \in Callers : VoltageGet(c)) /\ StahlOnly
    \/ (\E c \in Callers : Return(c)) /\ StahlOnly
    \/ (\E c \in Callers, s \in 0..MaxStep, d \in {0, MaxDelay} :
           Configure(c, Some(s), d)) /\ StahlOnly

SpecRamp == InitRamp /\ [][RampNext]_vars

\* direct sets of the validated parameters, from one thread of control:
\* one call at a time
SetNext ==
    \/ (\E c \in Callers, v \in Voltages : li_out = "none" /\ VoltageSet(c, v)) /\ StahlOnly
    \/ (\E c \in Callers : WalkBegin(c)) /\ StahlOnly
    \/ (\E c \in Callers : WalkStep(c)) /\ StahlOnly
    \/ (\E c \in Callers : WalkEnd(c)) /\ StahlOnly
    \/ (\E c \in Callers : li_out = "none" /\ VoltageGet(c)) /\ StahlOnly
    \/ (\E c \in Callers : Return(c)) /\ StahlOnly
    \/ (\E c \in Callers, s \in 0..MaxStep, d \in {0, MaxDelay} :
           li_out = "none" /\ Configure(c, Some(s), d)) /\ StahlOnly
    \/ (\E v \in SlopeArgs : (\A c \in Callers : Resting(c)) /\ SlopeSet(v)) /\ LIOnly
    \/ SlopeReturn /\ LIOnly

SpecSet == InitSet /\ [][SetNext]_vars

\* ramps of two threads on the same channel with nothing serializing them:
\* each thread calls ramp once and runs it line by line, the lines of the
\* two interleaved
OverlapNext ==
    \/ (\E c \in Threads, t \in OverlapTargets, s \in OverlapSteps, d \in OverlapDelays :
           RampSave(c, t, s, d)) /\ StahlOnly
    \/ (\E c \in Threads : RampSaveDelay(c)) /\ StahlOnly
    \/ (\E c \in Threads : RampInstallStep(c)) /\ StahlOnly
    \/ (\E c \in Threads : RampInstallDelay(c)) /\ StahlOnly
    \/ (\E c \in Threads : RampAnnounce(c)) /\ StahlOnly
    \/ (\E c \in Threads :
           /\ WalkBegin(c)
           /\ vcache' # vcache => vcache'.v \in OverlapVoltages) /\ StahlOnly
    \/ (\E c \in Threads : WalkStep(c)) /\ StahlOnly
    \/ (\E c \in Threads : WalkEnd(c)) /\ StahlOnly
    \/ (\E c \in Threads : RampAnnounceSet(c)) /\ StahlOnly
    \/ (\E c \in Threads : RampRestoreStep(c)) /\ StahlOnly
    \/ (\E c \in Threads : RampRestoreDelay(c)) /\ StahlOnly

SpecOverlap == InitRamp /\ [][OverlapNext]_vars

\* sets and gets of the MS2830 sweep parameters
MSNext ==
    \/ (\E v \in FreqArgs : MSSetStart(v)) /\ MSOnly
    \/ (\E v \in FreqArgs : MSSetStop(v)) /\ MSOnly
    \/ (\E v \in FreqArgs : MSSetCenterSpan("center", v)) /\ MSOnly
    \/ (\E v \in SpanArgs : MSSetCenterSpan("span", v)) /\ MSOnly
    \/ (\E n \in NptsArgs : MSSetNpts(n)) /\ MSOnly
    \/ (\E op \in {"get_start", "get_stop"} : MSGet(op)) /\ MSOnly
    \/ MSReturn /\ MSOnly

SpecMS == InitMS /\ [][MSNext]_vars

\* the logging process, the calendar and the BlueFors gets
BFNext ==
    \/ (\E ch \in TChans : GetTemperature(ch)) /\ BFOnly
    \/ (\E ch \in PChans : GetPressure(ch)) /\ BFOnly
    \/ BFReturn /\ BFOnly
    \/ WriterCreate /\ BFOnly
    \/ (\E t \in Tails : WriterPartial(t)) /\ BFOnly
    \/ WriterComplete /\ BFOnly
    \/ DayChange /\ BFOnly

SpecBF == InitBF /\ [][BFNext]_vars

\* construction of an HV324 and of an AFG31000
CtorNext ==
    \/ HVParse /\ xch' = xch /\ HVOnly
    \/ HVDisAuto /\ xch' = xch /\ HVOnly
    \/ HVAddChannel /\ xch' = xch /\ HVOnly
    \/ HVFinish /\ xch' = xch /\ HVOnly
    \/ AFGCheckModel /\ xch' = xch /\ AFGOnly
    \/ AFGAddChannel /\ xch' = xch /\ AFGOnly
    \/ AFGFinish /\ xch' = xch /\ AFGOnly
    \/ (\E n \in 0..(MaxChannels + 1) : StahlChannelNew(n)) /\ HVOnly
    \/ (\E n \in 0..(AFGNumChannels + 1) : AFGChannelNew(n)) /\ AFGOnly
    \/ XchReturn /\ XchOnly

SpecCtor == InitCtor /\ [][CtorNext]_vars

CodecOnly == UNCHANGED <<stahlVars, liVars, msVars, bfVars, ctorVars>>

\* the symbols drawn for a set: every key of every mapping and one that is
\* no key of any
SymbolArgs == UNION {Symbols(m) : m \in MappedParams} \cup {"other"}

\* gets and sets of one parameter, one call at a time
CodecNext ==
    \/ CodecGetAny /\ CodecOnly
    \/ CodecGetEcho /\ CodecOnly
    \/ (\E sym \in SymbolArgs : CodecSetSymbol(sym)) /\ CodecOnly
    \/ (\E v \in VoltArgs : CodecSetVoltage(v)) /\ CodecOnly
    \/ CodecReturn /\ CodecOnly

SpecCodec == InitCodec /\ [][CodecNext]_vars

Next == RampNext \/ SetNext \/ OverlapNext \/ MSNext \/ BFNext \/ CtorNext \/ CodecNext

Spec == Init /\ [][Next]_vars

\* ------------------------------------------------------------------------
\* Claims about the Stahl channel and the validated parameters
\* ------------------------------------------------------------------------
Last(q) == q[Len(q)]

\* C1: when ramp raises after line 81 has installed the ramp's step, the
\* voltage parameter's step and inter_delay on exit equal the values they
\* had before the call.
C1_RestoredOnError ==
    \A c \in Callers :
        (pc[c] = "raised" /\ frame[c].op = "ramp" /\ frame[c].installed)
            => (vstep = pre[c].step /\ vdelay = pre[c].delay)

\* C2: a ramp that returns normally leaves voltage.step and
\* voltage.inter_delay equal to their values at the call's entry.
C2_RestoredOnReturn ==
    \A c \in Callers :
        (pc[c] = "returned" /\ frame[c].op = "ramp")
            => (vstep = pre[c].step /\ vdelay = pre[c].delay)

\* a ramp has returned whose step and delay both differed from the standing
\* ones, and which walked in more than one step
C2_Witness ==
    \E c \in Callers :
        /\ pc[c] = "returned"
        /\ frame[c].op = "ramp"
        /\ pre[c].step.set
        /\ frame[c].step > 0
        /\ frame[c].step # pre[c].step.v
        /\ frame[c].delay # pre[c].delay
        /\ Len(sent[c]) > 1

\* C3: during a ramp with step > 0 from the cached voltage s to the target
\* t, the voltages sent move monotonically toward t, each differs from the
\* one before it (the first from s) by at most step, none passes t, and
\* once the walk is over the last voltage sent is t.
C3_RampWalk ==
    \A c \in Callers :
        (frame[c].op = "ramp" /\ frame[c].step > 0 /\ frame[c].start.set) =>
            LET s == frame[c].start.v
                t == frame[c].target
                q == <<s>> \o sent[c]
            IN  /\ \A i \in 1..Len(sent[c]) :
                     /\ Abs(q[i + 1] - q[i]) <= frame[c].step
                     /\ IF t >= s
                        THEN q[i] <= q[i + 1] /\ q[i + 1] <= t
                        ELSE q[i] >= q[i + 1] /\ q[i + 1] >= t
                /\ pc[c] \in {"ramp_88", "ramp_90", "ramp_91", "returned"}
                     => (sent[c] # <<>> /\ Last(sent[c]) = t)

\* a ramp has returned whose walk took several steps, the last one shorter
\* than the step
C3_Witness ==
    \E c \in Callers :
        /\ pc[c] = "returned"
        /\ frame[c].op = "ramp"
        /\ frame[c].step > 1
        /\ Len(sent[c]) > 2
        /\ Abs(Last(sent[c]) - sent[c][Len(sent[c]) - 1]) < frame[c].step

\* C4: a set with a value outside the validator's range or enum raises,
\* sends nothing to the transport and leaves the cache as it was.
C4_InvalidSetRejected ==
    /\ \A c \in Callers :
         (/\ frame[c].op = "set"
          /\ pc[c] # "set_validate"
          /\ (frame[c].target < VMin \/ frame[c].target > VMax))
             => (/\ pc[c] = "raised"
                 /\ io[c] = 0
                 /\ sent[c] = <<>>
                 /\ vcache = pre[c].cache)
    /\ (li_out # "none" /\ li_arg \notin {6, 12, 18, 24, 30})
          => (li_out = "raised" /\ li_io = 0 /\ slope = li_pre)

\* a voltage above the range was set while a step was configured and a
\* voltage cached, and the set raised
C4_Witness ==
    \E c \in Callers :
        /\ frame[c].op = "set"
        /\ frame[c].target > VMax
        /\ pc[c] = "raised"
        /\ vstep.set
        /\ vcache.set

\* ------------------------------------------------------------------------
\* Claims about the MS2830 sweep parameters
\* ------------------------------------------------------------------------
\* C5: set start(v) with v at or above the device's stop frequency is
\* rejected and no start write is sent; set stop(v) with v at or below the
\* device's start frequency is rejected; equality is rejected both ways.
C5_OrderingRejected ==
    /\ (ms_call.op = "start" /\ FLe(ms_dev.stop, ms_call.arg))
          => (/\ ms_call.out = "raised"
              /\ \A i \in 1..Len(ms_call.wire) : ms_call.wire[i].cmd # "STARt")
    /\ (ms_call.op = "stop" /\ FLe(ms_call.arg, ms_dev.start))
          => ms_call.out = "raised"

\* a start equal to the device's stop, inside the validator's range, was
\* rejected after the stop query
C5_Witness ==
    /\ ms_call.op = "start"
    /\ ms_call.arg = ms_dev.stop
    /\ FLe(MinFreq, ms_call.arg) /\ FLe(ms_call.arg, FPlus(MaxFreq, -10))
    /\ ms_call.out = "raised"
    /\ ms_call.wire = <<Cmd("STOP?", NoVal)>>

\* the write command of each sweep parameter
C6_WriteName ==
    [start |-> "STARt", stop |-> "STOP", center |-> "CENTer", span |-> "SPAN",
     npts |-> "POINts"]

\* C6: every set of start, stop, center, span or npts that passes the
\* validator and the ordering check has sent the parameter's set command
\* with that value by the time it returns.
C6_AcceptedSetWrites ==
    (ms_call.out = "returned" /\ ms_call.op \in DOMAIN C6_WriteName)
        => \E i \in 1..Len(ms_call.wire) :
              ms_call.wire[i] = Cmd(C6_WriteName[ms_call.op], ms_call.arg)

\* a set of start or stop that raised
C19_Rejected == ms_call.op \in {"start", "stop"} /\ ms_call.out = "raised"

\* the argument lies in the range of the parameter's validator
C19_InRange ==
    IF ms_call.op = "start"
    THEN FLe(MinFreq, ms_call.arg) /\ FLe(ms_call.arg, FPlus(MaxFreq, -10))
    ELSE FLe(FPlus(MinFreq, 10), ms_call.arg) /\ FLe(ms_call.arg, MaxFreq)

\* C19 (as stated): when set start(v) or set stop(v) is rejected, by the
\* range validator or by the ordering check, nothing has been sent during
\* the call and neither start's nor stop's cached value differs from what
\* it was before the call.
C19_RejectedNoEffect ==
    C19_Rejected =>
        /\ ms_call.wire = <<>>
        /\ ms_cache.start = ms_call.pre.start
        /\ ms_cache.stop = ms_call.pre.stop

\* C19 (amended): a set of start or stop rejected by the range validator
\* has sent nothing and left both caches as they were; one rejected by the
\* ordering check has sent exactly the query of the other parameter and no
\* write, has left the cache of the parameter being set as it was, and has
\* refreshed the other parameter's cache with the device's value.
C19_RejectedNoWrite ==
    C19_Rejected =>
        IF ~C19_InRange
        THEN /\ ms_call.wire = <<>>
             /\ ms_cache.start = ms_call.pre.start
             /\ ms_cache.stop = ms_call.pre.stop
        ELSE IF ms_call.op = "start"
        THEN /\ ms_call.wire = <<Cmd("STOP?", NoVal)>>
             /\ ms_cache.start = ms_call.pre.start
             /\ ms_cache.stop = Some(ms_dev.stop)
        ELSE /\ ms_call.wire = <<Cmd("STARt?", NoVal)>>
             /\ ms_cache.stop = ms_call.pre.stop
             /\ ms_cache.start = Some(ms_dev.start)

\* a stop below the device's start, inside the validator's range, was
\* rejected after the start query, which changed start's cached value
C19_Witness ==
    /\ ms_call.op = "stop"
    /\ ms_call.out = "raised"
    /\ C19_InRange
    /\ FLt(ms_call.arg, ms_dev.start)
    /\ ms_call.wire = <<Cmd("STARt?", NoVal)>>
    /\ ms_cache.start # ms_call.pre.start
    /\ ms_call.pre.start.set

\* a and b differ by more than 1 Hz
C20_MoreThanOneStep(a, b) == FLt(FPlus(a, 1), b) \/ FLt(FPlus(b, 1), a)

C22_CacheMatchesDevice ==
    (/\ ms_call.op \in {"start", "stop"}
     /\ ms_call.out = "returned"
     /\ ms_call.op = "start" => ms_dev.start = ms_call.arg)
        => (/\ ms_cache.start = Some(ms_dev.start)
            /\ ms_cache.stop = Some(ms_dev.stop))

\* ------------------------------------------------------------------------
\* Claims about the BlueFors gets
\* ------------------------------------------------------------------------
\* C7: when today's log file is missing, inaccessible, empty or holds a row
\* whose date / time does not parse, get_temperature / get_pressure return
\* not-a-number and raise nothing.
C7_BadFileGivesNaN ==
    bf_call.cond \in {"missing", "denied", "empty", "unparsable"}
        => bf_call.out = "nan"

\* C8: when today's log file is readable and well-formed with at least one
\* row, the get returns the last row's value column (column 'y', or
\* 'ch<channel>_pressure') of today's file, never a value of another date.
C8_LatestOfToday ==
    bf_call.cond = "wellformed" =>
        LET file == IF bf_call.op = "temperature"
                    THEN [kind |-> "T", ch |-> bf_call.channel]
                    ELSE [kind |-> "P", ch |-> 0]
            col == IF bf_call.op = "temperature" THEN 1 ELSE bf_call.channel
        IN  /\ bf_call.out = "value"
            /\ bf_call.val.set
            /\ bf_call.val.v.day = bf_today
            /\ bf_call.val.v.file = file
            /\ bf_call.val.v.row = bf_files[bf_today][file].rows
            /\ bf_call.val.v.col = col

\* after a date change, with rows in the earlier date's file, a temperature
\* was read from a file of two rows
C8_Witness ==
    /\ bf_call.op = "temperature"
    /\ bf_call.channel = 2
    /\ bf_call.cond = "wellformed"
    /\ bf_call.out = "value"
    /\ bf_today = 2
    /\ bf_focus = [kind |-> "T", ch |-> 2]
    /\ bf_files[1][bf_focus].rows >= 1
    /\ bf_files[2][bf_focus].rows = 2

\* ------------------------------------------------------------------------
\* Claims about construction and the identity parser
\* ------------------------------------------------------------------------
\* the replies that carry a model and a variant letter of the pattern
C9_Recognizable ==
    /\ hv_input.model \in {<<"H", "V">>, <<"B", "S">>}
    /\ hv_input.variant \in {"b", "u", "q", "s", "m"}

\* C9: when the IDN reply does not match the pattern, HV324 construction
\* raises with nothing sent after the IDN query and no channel created;
\* AFG31000 construction with a model other than 31252 raises with no
\* channel created.
C9_UnrecognizedStopsConstruction ==
    /\ (hv_pc # "start" /\ ~C9_Recognizable)
          => (hv_pc = "raised" /\ hv_wire = <<"IDN">> /\ hv_children = <<>>)
    /\ (afg_pc # "start" /\ afg_idn # <<"A", "F", "G", "3", "1", "2", "5", "2">>)
          => (afg_pc = "raised" /\ afg_children = <<>>)

\* both constructions have raised: the HV324's on a reply without a variant
\* letter, the AFG's on another model
C9_Witness ==
    /\ hv_pc = "raised"
    /\ hv_input.model = <<"H", "V">>
    /\ hv_input.variant = ""
    /\ afg_pc = "raised"

\* the names of the variant letters
C10_Names ==
    [b |-> "bipolar", u |-> "unipolar", q |-> "quadrupole", s |-> "steerer",
     m |-> "bipolar milivolt"]

\* C10: parsing the reply built from a model, a serial, a range, a channel
\* count and a variant letter gives back that model, the serial's text, the
\* range and the count as numbers and the variant's name, distinct letters
\* giving distinct names; a reply without a variant letter is not parsed.
C10_ParseRoundTrip ==
    /\ hv_pc # "start" =>
         IF hv_input.model \in {<<"H", "V">>, <<"B", "S">>}
            /\ hv_input.variant \in DOMAIN C10_Names
         THEN /\ hv_info.set
              /\ hv_info.model = hv_input.model
              /\ hv_info.serial_number = Format(hv_input.serial, 3)
              /\ hv_info.voltage_range = hv_input.range
              /\ hv_info.n_channels = hv_input.nch
              /\ hv_info.output_type = C10_Names[hv_input.variant]
         ELSE ~hv_info.set
    /\ \A a, b \in DOMAIN C10_Names :
         a # b => OutputType(a) # OutputType(b)

\* a reply with text before the identity, range 005 and variant m was parsed
C10_Witness ==
    /\ hv_pc # "start"
    /\ hv_info.set
    /\ hv_input.prefix # <<>>
    /\ hv_input.range = 5
    /\ hv_input.variant = "m"
    /\ hv_info.output_type = "bipolar milivolt"

\* ------------------------------------------------------------------------
\* Claims about channel construction and child names
\* ------------------------------------------------------------------------
\* the channel count of the parent of the channel under construction
C11_ParentCount ==
    IF xch.kind = "afg" THEN 2 ELSE hv_info.n_channels

\* C11: constructing an AFGChannel or a StahlChannel with an index outside
\* [1, parent's channel count] raises, and none of the channel's parameters
\* is created.
C11_IndexOutsideRaises ==
    (xch.kind # "none" /\ ~(1 <= xch.index /\ xch.index <= C11_ParentCount))
        => (xch.out = "raised" /\ xch.params = <<>>)

C13_BadReplyOnlyWarns ==
    \A c \in Callers :
        (/\ Exited(c)
         /\ frame[c].op = "set"
         /\ ~pre[c].step.set
         /\ frame[c].fault = "ch_timeout" \/ frame[c].warned)
            => (/\ pc[c] = "returned"
                /\ frame[c].warned
                /\ vcache = Some(frame[c].target))

\* C18: a ramp whose display exchange before the walk, or the one after it,
\* failed still returns normally with the voltage walked to the target.
C18_DisplayFailureNonFatal ==
    \A c \in Callers :
        (/\ Exited(c)
         /\ frame[c].op = "ramp"
         /\ frame[c].fault \in {"dis_ramp", "dis_set"})
            => (pc[c] = "returned" /\ vcache = Some(frame[c].target))

\* ------------------------------------------------------------------------
\* Claims about decoding, validation on get and round trips
\* ------------------------------------------------------------------------
\* C14: every value a get returns satisfies the parameter's validator: the
\* HV324 voltage got lies in [-10, 10] V whatever code the device reports,
\* and the LI5660 get_data got has exactly 2 elements whatever the number
\* of fields replied.
C14_GetSatisfiesValidator ==
    (cd_call.op = "get" /\ cd_call.out = "returned") =>
        /\ cd_param = "hv_voltage" =>
              (-10000000 <= cd_call.val.n /\ cd_call.val.n <= 10000000)
        /\ cd_param = "li_get_data" => Len(cd_call.val.a) = 2

\* the mappings with one token per symbol
C15_OneToOne == MappedParams \ {"ms_cont_meas"}

C16_NotANumber ==
    {<<"a", "b", "c">>,
     <<>>,
     <<"m", "A">>,
     <<"1", ",", "2">>,
     <<"0", ".", "5", ",", "9", "0", ",", "0", ",", "0", ".", "5">>,
     <<"1", ",", ",", "3", ",", "4">>,
     <<"1", ",", "x">>,
     <<"S", "I", "N">>,
     <<"O", "N">>,
     <<"F", "O", "O">>}

\* the number of commas in a text
C16_Commas(text) == Cardinality({i \in 1..Len(text) : text[i] = ","})

\* C16: a get whose reply cannot be decoded (a text that is no number for
\* the HV324 voltage or current, a token that no symbol of the mapping is
\* sent as, fewer fields than the index LI5660 R / T / X / Y read) raises,
\* and the cache keeps the value it had before the call.
C16_UndecodableRaises ==
    (/\ cd_call.op = "get"
     /\ \/ cd_param = "hv_voltage"
           /\ cd_call.reply \in C16_NotANumber \cup {<<"1", "2", ".", "5", "m", "A">>}
        \/ cd_param = "hv_current" /\ cd_call.reply \in C16_NotANumber
        \/ /\ cd_param \in MappedParams
           /\ \A sym \in Symbols(cd_param) :
                 cd_call.reply # TokenText(EncodeToken(cd_param, sym))
        \/ cd_param = "li_R" /\ cd_call.reply = <<>>
        \/ cd_param = "li_T" /\ C16_Commas(cd_call.reply) < 1
        \/ cd_param = "li_X" /\ C16_Commas(cd_call.reply) < 2
        \/ cd_param = "li_Y" /\ C16_Commas(cd_call.reply) < 3)
        => (cd_call.out = "raised" /\ cd_cache = cd_call.pre)

\* X was got from a reply of two fields after an earlier get had cached a
\* value
C16_Witness ==
    /\ cd_param = "li_X"
    /\ cd_call.op = "get"
    /\ cd_call.reply = <<"1", ",", "2">>
    /\ cd_call.out = "raised"
    /\ cd_call.pre.kind = "num"
    /\ cd_cache = cd_call.pre

C23_CodeInUnitInterval ==
    cd_param = "hv_voltage" =>
        /\ (/\ cd_call.op = "set"
            /\ VMin * Million <= cd_call.arg.n
            /\ cd_call.arg.n <= VMax * Million)
              => cd_call.out = "returned"
        /\ cd_dev.set =>
              /\ 0 <= FloatValue(cd_dev.text)
              /\ FloatValue(cd_dev.text) <= Million

\* ------------------------------------------------------------------------
\* Claims about ramps that overlap
\* ------------------------------------------------------------------------
\* what ramp installs as the step while it runs
C21_TemporaryStep(c) == StepSetterValue(Some(frame[c].step))

\* ramps of c and o have both returned; that of c began with no call in
\* progress, that of o while the ramp of c was running
C21_BothReturned(c, o) ==
    /\ c # o
    /\ frame[c].op = "ramp" /\ pc[c] = "returned" /\ ~pre[c].overlap
    /\ frame[o].op = "ramp" /\ pc[o] = "returned" /\ pre[o].overlap

\* C21: two ramps on the same channel that overlap are not safe: after both
\* have returned, step and inter_delay each hold what one of the two ramps
\* saved, whichever restored last, and what the later ramp saved is either
\* the value from before the ramps or the earlier ramp's temporary value;
\* there is an interleaving (the witness) where the later ramp saved the
\* earlier one's temporary step and delay and restored them last, so that
\* they differ from the values before either ramp began.
C21_OverlapLeavesTemporary ==
    \A c, o \in Threads :
        C21_BothReturned(c, o) =>
            /\ vstep \in {frame[c].saved_step, frame[o].saved_step}
            /\ vdelay \in {frame[c].saved_inter_delay, frame[o].saved_inter_delay}
            /\ frame[c].saved_step = pre[c].step
            /\ frame[o].saved_step \in {pre[c].step, C21_TemporaryStep(c)}
            /\ frame[c].saved_inter_delay \in {pre[c].delay, frame[o].delay}
            /\ frame[o].saved_inter_delay \in {pre[c].delay, frame[c].delay}

\* both ramps have returned, the later one saved the earlier one's
\* temporary step and delay, and those are left standing: they differ from
\* the step and delay before either ramp began
C21_Witness ==
    \E c, o \in Threads :
        /\ C21_BothReturned(c, o)
        /\ frame[o].saved_step = C21_TemporaryStep(c)
        /\ frame[o].saved_inter_delay = frame[c].delay
        /\ vstep = C21_TemporaryStep(c) /\ vstep # pre[c].step
        /\ vdelay = frame[c].delay /\ vdelay # pre[c].delay
        /\ frame[o].step # frame[c].step

====
